---- MODULE Spec2Model ----
(***************************************************************************)
(* A model of the Nexis ingestion pipeline:                                *)
(*   backend/src/services/sentiment_analyzer.py  SentimentAnalyzer.analyze *)
(*   backend/src/services/scraper.py             RSSScraper.scrape_topic   *)
(*                                                                         *)
(* Texts are strings (Len, \o and SubSeq act on them character by          *)
(* character).  A Python float is the rational [num, den].  A step that    *)
(* raises yields Raised.  The accented literals of the source (negatif,    *)
(* economie, geopolitique) are written without their accents.              *)
(***************************************************************************)
EXTENDS Integers, Sequences, FiniteSets, TLC

VARIABLES
    \* ---- SentimentAnalyzer driven on its own (SpecAnalyzer)
    text,           \* argument of the analyze(text) call
    pipeOut,        \* what self.pipe answers to that call, if called
    result,         \* what the call returned (NoResult before it)
    pipeCallCount,  \* number of calls self.pipe has received
    pipeSent,       \* what that call passed to self.pipe (None: not called)
    \* ---- RSSScraper (Spec)
    cap,            \* self.max_articles_per_topic
    pc,             \* position of the scrape_topic call in progress
    topic,          \* the topic the scraper is called for
    articles,       \* its local list `articles`
    fi,             \* index of the current item of feeds.items()
    entries,        \* feed.entries of the feed being consumed
    ei,             \* index of the next entry of that feed
    feedMock,       \* feed URL -> what feedparser.parse answers for it
    analyzed,       \* texts passed to self.analyzer.analyze in this call
    netCalls,       \* network calls issued in this call
    clock,          \* what datetime.now() reads; time passes between calls
    results         \* outcomes of the completed scrape_topic calls

analyzerVars == <<text, pipeOut, result, pipeCallCount, pipeSent>>
scraperVars == <<cap, pc, topic, articles, fi, entries, ei, feedMock,
                 analyzed, netCalls, clock, results>>
vars == <<text, pipeOut, result, pipeCallCount, pipeSent,
          cap, pc, topic, articles, fi, entries, ei, feedMock,
          analyzed, netCalls, clock, results>>

(***************************************************************************)
(* Bounds of the model.                                                    *)
(***************************************************************************)
MaxTextLen == 6
MaxPipeCalls == 2
MaxCap == 2
MaxStream == 3
MaxRuns == 2

(***************************************************************************)
(* Values.                                                                 *)
(***************************************************************************)
Absent == "<absent>"
None == "<None>"

Min(S) == CHOOSE x \in S : \A y \in S : x <= y
Max(S) == CHOOSE x \in S : \A y \in S : x >= y

RECURSIVE Rep(_, _)
Rep(c, n) ==
    IF n <= 0 THEN ""
    ELSE IF n % 2 = 0 THEN LET half == Rep(c, n \div 2) IN half \o half
    ELSE c \o Rep(c, n - 1)

CharAt(s, i) == SubSeq(s, i, i)

Whitespace == {" ", "\t", "\n"}

\* str.strip()
strip(s) ==
    LET keep == {i \in 1..Len(s) : CharAt(s, i) \notin Whitespace}
    IN  IF keep = {} THEN "" ELSE SubSeq(s, Min(keep), Max(keep))

\* str.split(): the maximal runs of non-whitespace characters, in order
RECURSIVE split(_)
split(s) ==
    IF s = "" THEN <<>>
    ELSE IF CharAt(s, 1) \in Whitespace THEN split(SubSeq(s, 2, Len(s)))
    ELSE LET stops == {i \in 1..Len(s) : CharAt(s, i) \in Whitespace}
             n == IF stops = {} THEN Len(s) ELSE Min(stops) - 1
         IN  <<SubSeq(s, 1, n)>> \o split(SubSeq(s, n + 1, Len(s)))

Digits == <<"0", "1", "2", "3", "4", "5", "6", "7", "8", "9">>

IsDigit(c) == \E d \in 1..Len(Digits) : Digits[d] = c

DigitVal(c) == (CHOOSE d \in 1..Len(Digits) : Digits[d] = c) - 1

RECURSIVE DigitsVal(_)
DigitsVal(s) ==
    IF s = "" THEN 0
    ELSE DigitsVal(SubSeq(s, 1, Len(s) - 1)) * Len(Digits) + DigitVal(CharAt(s, Len(s)))

\* The outcome of a step that may raise: the value, or the exception.
Ok(v) == [ok |-> TRUE, val |-> v]
Raised == [ok |-> FALSE, val |-> 0]

\* int(tok) of a whitespace-free token: an optional sign, then decimal
\* digits; anything else is a ValueError
int(tok) ==
    LET signed == tok # "" /\ CharAt(tok, 1) \in {"+", "-"}
        body == IF signed THEN SubSeq(tok, 2, Len(tok)) ELSE tok
    IN  IF body = "" \/ \E i \in 1..Len(body) : ~IsDigit(CharAt(body, i))
        THEN Raised
        ELSE IF signed /\ CharAt(tok, 1) = "-" THEN Ok(0 - DigitsVal(body))
        ELSE Ok(DigitsVal(body))

(***************************************************************************)
(* SentimentAnalyzer.analyze                                               *)
(***************************************************************************)
MinTextLen == 5
MaxInputLen == 512

Float(n, d) == [num |-> n, den |-> d]

Neutral == [score |-> Float(0, 1), label |-> "neutre"]

\* the guard of line 30 without its strip()
TooShortUnstripped(t) == t = "" \/ Len(t) < MinTextLen

\* the guard of line 30
TooShort(t) == t = "" \/ Len(strip(t)) < MinTextLen

\* text[:512]
Truncate(t) == SubSeq(t, 1, IF Len(t) < MaxInputLen THEN Len(t) ELSE MaxInputLen)

\* lines 57-67 with the first test of the label written stars < 2
MappingStrict(stars) ==
    [score |-> Float(stars - 3, 2),
     label |-> IF stars < 2 THEN "negatif"
               ELSE IF stars = 3 THEN "neutre" ELSE "positif"]

\* lines 57-67: the star rating to (score, label)
Mapping(stars) ==
    [score |-> Float(stars - 3, 2),
     label |-> IF stars <= 2 THEN "negatif"
               ELSE IF stars = 3 THEN "neutre" ELSE "positif"]

\* lines 36-49: the rating out of the pipeline's answer.  `out` tells
\* whether the pipeline raised and otherwise the list it returned, of dicts
\* (keys: the keys the dict has).
Stars(out) ==
    IF out.raises THEN Raised
    ELSE IF Len(out.list) = 0 THEN Raised                      \* [0]: IndexError
    ELSE IF "label" \notin out.list[1].keys THEN Raised        \* KeyError
    ELSE IF "score" \notin out.list[1].keys THEN Raised        \* KeyError
    ELSE IF split(out.list[1].label) = <<>> THEN Raised        \* [0]: IndexError
    ELSE int(split(out.list[1].label)[1])                      \* ValueError

\* the try block, lines 33-72
Classify(out) ==
    LET stars == Stars(out)
    IN  IF stars.ok THEN Mapping(stars.val) ELSE Neutral

\* analyze(text), with `out` the pipeline's answer to self.pipe(text[:512]):
\* ret is the returned pair, called tells whether self.pipe was called and
\* sent is what it was called with
analyze(t, out) ==
    IF TooShort(t)
    THEN [ret |-> Neutral, called |-> FALSE, sent |-> None]
    ELSE [ret |-> Classify(out), called |-> TRUE, sent |-> Truncate(t)]

(***************************************************************************)
(* Inputs of the analyzer.                                                 *)
(***************************************************************************)
RECURSIVE Strings(_)
Strings(n) ==
    IF n = 0 THEN {""}
    ELSE LET shorter == Strings(n - 1)
         IN  shorter \cup {s \o c : s \in shorter, c \in {" ", "a"}}

LongTexts == {Rep("a", MaxInputLen + d) : d \in {-1, 0, 1}}

TextInputs == Strings(MaxTextLen) \cup LongTexts

LabelInputs ==
    {"1 star", "2 stars", "3 stars", "4 stars", "5 stars",
     "0 stars", "6 stars", "10 stars", "-1 stars",
     "", " ", "stars 4", "LABEL_1", "4.5 stars"}

Dict(ks, l, s) == [keys |-> ks, label |-> l, score |-> s]

PipeRaises == [raises |-> TRUE, list |-> <<>>]
PipeReturns(l) == [raises |-> FALSE, list |-> l]

\* confidences are given in hundredths
PipeOutcomes ==
    {PipeRaises, PipeReturns(<<>>),
     PipeReturns(<<Dict({"score"}, "", 95)>>),
     PipeReturns(<<Dict({"label"}, "4 stars", 0)>>)}
    \cup {PipeReturns(<<Dict({"label", "score"}, l, s)>>) :
              l \in LabelInputs, s \in {20, 95}}

(***************************************************************************)
(* The analyzer driven on its own: one call analyze(text), to which the    *)
(* pipeline answers pipeOut if it is called.                               *)
(***************************************************************************)
NoResult == [score |-> Float(0, 1), label |-> None]

Analyze ==
    /\ result = NoResult
    /\ LET r == analyze(text, pipeOut)
       IN  /\ result' = r.ret
           /\ pipeSent' = r.sent
           /\ pipeCallCount' = IF r.called THEN pipeCallCount + 1 ELSE pipeCallCount
    /\ UNCHANGED <<text, pipeOut>>
    /\ UNCHANGED scraperVars

(***************************************************************************)
(* RSSScraper: the registry, the mocked world, the helpers of scrape_topic *)
(***************************************************************************)
Feed(n, u) == [name |-> n, url |-> u]

\* RSS_FEEDS; each topic's dict is the sequence of its items, in insertion
\* order (the order feeds.items() yields)
RSS_FEEDS ==
    [t \in {"economie", "climat", "politique", "geopolitique"} |->
        CASE t = "economie" ->
               <<Feed("lesechos", "https://news.google.com/rss/search?q=site:lesechos.fr+economie&hl=fr&gl=FR&ceid=FR:fr"),
                 Feed("latribune", "https://news.google.com/rss/search?q=site:latribune.fr+economie&hl=fr&gl=FR&ceid=FR:fr")>>
          [] t = "climat" ->
               <<Feed("lemonde_planete", "https://www.lemonde.fr/planete/rss_full.xml"),
                 Feed("reporterre", "https://reporterre.net/spip.php?page=backend")>>
          [] t = "politique" ->
               <<Feed("lefigaro_pol", "https://www.lefigaro.fr/rss/figaro_politique.xml"),
                 Feed("liberation_pol", "https://www.liberation.fr/arc/outboundfeeds/rss/category/politique/")>>
          [] t = "geopolitique" ->
               <<Feed("courrierinter", "https://www.courrierinternational.com/feed/all/rss.xml"),
                 Feed("diploweb", "https://www.diploweb.com/spip.php?page=backend")>>]

\* self.RSS_FEEDS.get(topic, {})
FeedsOf(t) == IF t \in DOMAIN RSS_FEEDS THEN RSS_FEEDS[t] ELSE <<>>

FeedUrls == {RSS_FEEDS[t][i].url : t \in DOMAIN RSS_FEEDS, i \in 1..2}

USER_AGENT == "BotActu/1.0"
ArticleTimeout == 4
MinBodyLen == 100

\* A network call as the program issues it: timeout is <<>> when the call
\* passes none, agent is the User-Agent header the call goes out with.
NetCall(api, timeout, agent) == [api |-> api, timeout |-> timeout, agent |-> agent]

\* line 100: feedparser.parse(feed_url), a module-level call that uses
\* neither self.session nor a timeout
FeedCall == NetCall("feedparser.parse", <<>>, "feedparser")

\* line 82: self.session.get(url, timeout=4), with the session's header
\* of line 74
ArticleCall == NetCall("session.get", <<ArticleTimeout>>, USER_AGENT)

\* What a blocking call does against a server that behaves as `net`:
\* "response", "error" (an exception of the transport), or "blocked" when
\* the server never answers and the call has no timeout to end the wait.
Transport(call, net) ==
    CASE net = "hang" -> IF call.timeout = <<>> THEN "blocked" ELSE "error"
      [] net = "refused" -> "error"
      [] OTHER -> "response"

\* line 86
tags == <<"article", "main", "div.content", "div.post-content", "div#content">>

\* fetch_article_text against a page [net, status, html]; html holds, for
\* each selector that matches, [sel, text] with the text that
\* get_text(" ", strip=True) gives for the first element matched.
\* blocked: the call never returns.
fetch_article_text(page) ==
    LET got == Transport(ArticleCall, page.net)
        hits == {i \in 1..Len(tags) : \E h \in page.html : h.sel = tags[i]}
    IN  IF got = "blocked" THEN [blocked |-> TRUE, text |-> ""]
        ELSE IF got = "error" THEN [blocked |-> FALSE, text |-> ""]
        ELSE IF page.status >= 400 THEN [blocked |-> FALSE, text |-> ""]
        ELSE IF hits = {} THEN [blocked |-> FALSE, text |-> ""]
        ELSE [blocked |-> FALSE,
              text |-> (CHOOSE h \in page.html : h.sel = tags[Min(hits)]).text]

\* datetime(year, month, day, hour, minute, second): ValueError outside
\* the ranges
DaysIn(y, m) ==
    IF m = 2 THEN (IF y % 4 = 0 /\ (y % 100 # 0 \/ y % 400 = 0) THEN 29 ELSE 28)
    ELSE IF m \in {4, 6, 9, 11} THEN 30 ELSE 31

datetime(p) ==
    IF /\ Len(p) >= 3
       /\ p[1] \in 1..9999 /\ p[2] \in 1..12 /\ p[3] \in 1..DaysIn(p[1], p[2])
       /\ Len(p) >= 4 => p[4] \in 0..23
       /\ Len(p) >= 5 => p[5] \in 0..59
       /\ Len(p) >= 6 => p[6] \in 0..59
    THEN [ok |-> TRUE, val |-> p]
    ELSE [ok |-> FALSE, val |-> <<>>]

\* datetime.now() when the clock reads t
Now(t) == <<2025, 1, 1, 0, 0, t>>

\* lines 107-111 with a publish time that is no date read as None
ReadFieldsLenient(e) ==
    IF e.title = Absent \/ e.link = Absent THEN [ok |-> FALSE, published |-> <<>>]
    ELSE IF e.published_parsed.has /\ e.published_parsed.val # <<>>
    THEN LET d == datetime(SubSeq(e.published_parsed.val, 1,
                              Min({6, Len(e.published_parsed.val)})))
         IN  [ok |-> TRUE, published |-> d.val]
    ELSE [ok |-> TRUE, published |-> <<>>]

\* lines 107-111: the fields of an entry.  An entry is [title, link,
\* published_parsed, description, page, pipe]; title, link and description
\* are Absent when the feed gave none (reading the attribute raises),
\* published_parsed is [has, val] with val = <<>> for None.
\* Yields Raised, or the triple title, link, published (<<>> for None).
ReadFields(e) ==
    IF e.title = Absent \/ e.link = Absent THEN [ok |-> FALSE, published |-> <<>>]
    ELSE IF e.published_parsed.has /\ e.published_parsed.val # <<>>
    THEN LET d == datetime(SubSeq(e.published_parsed.val, 1,
                              Min({6, Len(e.published_parsed.val)})))
         IN  [ok |-> d.ok, published |-> d.val]
    ELSE [ok |-> TRUE, published |-> <<>>]

\* entry.get('description', '')
Description(e) == IF e.description = Absent THEN "" ELSE e.description

\* line 117 with >= for >
text_to_analyze_ge(full_text, title, description) ==
    IF Len(full_text) >= MinBodyLen THEN full_text ELSE title \o " " \o description

\* line 117
text_to_analyze(full_text, title, description) ==
    IF Len(full_text) > MinBodyLen THEN full_text ELSE title \o " " \o description

\* lines 104 and 130 with > for >=
CapReachedLate(n, max_articles_per_topic) == n > max_articles_per_topic

\* lines 104 and 130: len(articles) >= self.max_articles_per_topic
CapReached(n, max_articles_per_topic) == n >= max_articles_per_topic

\* line 122 with articles.insert(0, ...)
AcceptFront(as, a) == <<a>> \o as

\* line 122: articles.append(...)
Accept(as, a) == Append(as, a)

\* ArticleData.__init__ with line 42 written datetime.now()
ArticleDataStamped(title, url, source, top, published_date, txt, sentiment_score, sentiment_label, now) ==
    [title |-> title, url |-> url, source |-> source, topic |-> top,
     published_date |-> now,
     text |-> txt,
     sentiment_score |-> sentiment_score,
     sentiment_label |-> sentiment_label]

\* ArticleData.__init__, lines 38-45; `now` is what datetime.now() returns
ArticleData(title, url, source, top, published_date, txt, sentiment_score, sentiment_label, now) ==
    [title |-> title, url |-> url, source |-> source, topic |-> top,
     published_date |-> IF published_date # <<>> THEN published_date ELSE now,
     text |-> txt,
     sentiment_score |-> sentiment_score,
     sentiment_label |-> sentiment_label]

(***************************************************************************)
(* The mocked world: pages, entries and feeds.                             *)
(***************************************************************************)
Page(net, status, html) == [net |-> net, status |-> status, html |-> html]
Hit(sel, txt) == [sel |-> sel, text |-> txt]

Entry(title, link, published_parsed, description, page, pipe) ==
    [title |-> title, link |-> link, published_parsed |-> published_parsed,
     description |-> description, page |-> page, pipe |-> pipe]

Published(p) == [has |-> TRUE, val |-> p]
NoPublished == [has |-> FALSE, val |-> <<>>]

Rated(l) == PipeReturns(<<Dict({"label", "score"}, l, 95)>>)

\* a body above the threshold, a publish time, a description
EntryLong ==
    Entry("Budget vote", "https://ex.org/1", Published(<<2024, 5, 17, 8, 30, 0, 4, 138, 0>>),
          "le budget est adopte",
          Page("ok", 200, {Hit("article", Rep("x", MinBodyLen + 50)), Hit("main", "menu")}),
          Rated("4 stars"))

\* no publish time in the feed; the page answers 404
EntryNoDate ==
    Entry("Greve", "https://ex.org/2", NoPublished, "les trains sont a l'arret",
          Page("ok", 404, {Hit("article", Rep("y", MinBodyLen + 50))}),
          Rated("2 stars"))

\* no title in the feed
EntryNoTitle ==
    Entry(Absent, "https://ex.org/3", NoPublished, "sans titre",
          Page("ok", 200, {}), Rated("5 stars"))

\* a body of exactly the threshold, no description, published_parsed None,
\* a pipeline that raises
EntryEdge ==
    Entry("Seuil", "https://ex.org/4", Published(<<>>), Absent,
          Page("ok", 200, {Hit("div.content", "pied"), Hit("main", Rep("z", MinBodyLen))}),
          PipeRaises)

\* a publish time that is no date
EntryBadDate ==
    Entry("Date", "https://ex.org/5", Published(<<2024, 2, 30, 8, 30, 0, 4, 61, 0>>),
          "trente fevrier", Page("ok", 200, {}), Rated("3 stars"))

\* a page whose server never answers; a title and a description too short
\* to classify
EntryHang ==
    Entry("ab", "https://ex.org/6", Published(<<2024, 5, 18, 9, 0, 0, 5, 139, 0>>),
          "", Page("hang", 200, {}), Rated("1 star"))

EntryInputs ==
    {EntryLong, EntryNoDate, EntryNoTitle, EntryEdge, EntryBadDate, EntryHang}

RECURSIVE SeqsUpTo(_, _)
SeqsUpTo(S, n) ==
    IF n <= 0 THEN {<<>>}
    ELSE LET shorter == SeqsUpTo(S, n - 1)
         IN  shorter \cup {Append(q, x) : q \in shorter, x \in S}

\* What feedparser.parse does for a URL: net is how the server behaves,
\* raises tells whether parse lets an exception out, bozo and entries are
\* the fields of the result.
Response(net, raises, bozo, es) ==
    [net |-> net, raises |-> raises, bozo |-> bozo, entries |-> es]

Unset == Response("unset", FALSE, FALSE, <<>>)

\* the answers a feed may give when at most `room` entries may be served
FeedResponses(room) ==
    {Response("ok", FALSE, FALSE, es) : es \in SeqsUpTo(EntryInputs, room)}
    \cup {Response("ok", FALSE, TRUE, es) : es \in SeqsUpTo({EntryLong}, Min({room, 1}))}
    \cup {Response("refused", FALSE, TRUE, <<>>),
          Response("refused", TRUE, FALSE, <<>>),
          Response("hang", FALSE, FALSE, <<>>)}

RECURSIVE SumLen(_, _)
SumLen(f, D) ==
    IF D = {} THEN 0
    ELSE LET u == CHOOSE x \in D : TRUE
         IN  Len(f[u].entries) + SumLen(f, D \ {u})

TopicInputs == {"climat", "sport"}

(***************************************************************************)
(* RSSScraper.scrape_topic, step by step.                                  *)
(***************************************************************************)
Locals0 ==
    /\ articles' = <<>>
    /\ fi' = 0
    /\ entries' = <<>>
    /\ ei' = 0

RunResult(t, raised, as) == [topic |-> t, raised |-> raised, articles |-> as]

\* lines 95-97: a call scrape_topic(topic); time has passed since the
\* call before it
Call ==
    /\ pc = "idle"
    /\ Len(results) < MaxRuns
    /\ pc' = "feeds"
    /\ articles' = <<>>
    /\ fi' = 1
    /\ entries' = <<>>
    /\ ei' = 0
    /\ analyzed' = <<>>
    /\ netCalls' = {}
    /\ clock' = clock + 1
    /\ UNCHANGED <<cap, topic, feedMock, results>>
    /\ UNCHANGED analyzerVars

\* lines 99-101: the next item of feeds.items() and feedparser.parse
ParseFeed ==
    /\ pc = "feeds"
    /\ fi <= Len(FeedsOf(topic))
    /\ LET url == FeedsOf(topic)[fi].url
       IN  \E r \in (IF feedMock[url] = Unset
                     THEN FeedResponses(MaxStream - SumLen(feedMock, FeedUrls))
                     ELSE {feedMock[url]}) :
              /\ feedMock' = [feedMock EXCEPT ![url] = r]
              /\ netCalls' = netCalls \cup {FeedCall}
              /\ IF Transport(FeedCall, r.net) = "blocked"
                 THEN /\ pc' = "blocked"
                      /\ UNCHANGED <<articles, fi, entries, ei, results>>
                 ELSE IF r.raises
                 THEN /\ pc' = "idle"
                      /\ results' = Append(results, RunResult(topic, TRUE, <<>>))
                      /\ Locals0
                 ELSE IF r.bozo
                 THEN /\ fi' = fi + 1
                      /\ UNCHANGED <<pc, articles, entries, ei, results>>
                 ELSE /\ pc' = "entries"
                      /\ entries' = r.entries
                      /\ ei' = 1
                      /\ UNCHANGED <<articles, fi, results>>
    /\ UNCHANGED <<cap, topic, analyzed, clock>>
    /\ UNCHANGED analyzerVars

\* lines 103-128: one entry of the feed
ProcessEntry ==
    /\ pc = "entries"
    /\ ei <= Len(entries)
    /\ ~CapReached(Len(articles), cap)
    /\ LET entry == entries[ei]
           fields == ReadFields(entry)
           page == fetch_article_text(entry.page)
           full_text == page.text
           chosen == text_to_analyze(full_text, entry.title, Description(entry))
           a == analyze(chosen, entry.pipe).ret
       IN  IF ~fields.ok
           THEN /\ ei' = ei + 1
                /\ UNCHANGED <<pc, articles, analyzed, netCalls, clock>>
           ELSE IF page.blocked
           THEN /\ pc' = "blocked"
                /\ netCalls' = netCalls \cup {ArticleCall}
                /\ UNCHANGED <<ei, articles, analyzed, clock>>
           ELSE /\ clock' = clock
                /\ netCalls' = netCalls \cup {ArticleCall}
                /\ analyzed' = Append(analyzed, [src |-> fi, idx |-> ei, text |-> chosen])
                /\ articles' = Accept(articles,
                       ArticleData(entry.title, entry.link, FeedsOf(topic)[fi].name,
                                   topic, fields.published, full_text,
                                   a.score, a.label, Now(clock)))
                /\ ei' = ei + 1
                /\ pc' = pc
    /\ UNCHANGED <<cap, topic, fi, entries, feedMock, results>>
    /\ UNCHANGED analyzerVars

\* lines 103-104 and 130: the end of the inner loop, by exhaustion or by
\* the break of line 104, then the test of line 130
EndFeed ==
    /\ pc = "entries"
    /\ ei > Len(entries) \/ CapReached(Len(articles), cap)
    /\ IF CapReached(Len(articles), cap)
       THEN pc' = "return" /\ fi' = fi
       ELSE pc' = "feeds" /\ fi' = fi + 1
    /\ UNCHANGED <<cap, topic, articles, entries, ei, feedMock, analyzed, netCalls,
                   clock, results>>
    /\ UNCHANGED analyzerVars

\* line 132
Return ==
    /\ pc = "return" \/ (pc = "feeds" /\ fi > Len(FeedsOf(topic)))
    /\ pc' = "idle"
    /\ results' = Append(results, RunResult(topic, FALSE, articles))
    /\ Locals0
    /\ UNCHANGED <<cap, topic, feedMock, analyzed, netCalls, clock>>
    /\ UNCHANGED analyzerVars

(***************************************************************************)
(* Specifications.                                                         *)
(***************************************************************************)
InitAnalyzerVars ==
    /\ text = ""
    /\ pipeOut = PipeRaises
    /\ result = NoResult
    /\ pipeCallCount = 0
    /\ pipeSent = None

InitScraperVars ==
    /\ pc = "idle"
    /\ articles = <<>>
    /\ fi = 0
    /\ entries = <<>>
    /\ ei = 0
    /\ feedMock = [u \in FeedUrls |-> Unset]
    /\ analyzed = <<>>
    /\ netCalls = {}
    /\ clock = 0
    /\ results = <<>>

\* RSSScraper(max_articles_per_topic), to be called for one topic
Init ==
    /\ cap \in 0..MaxCap
    /\ topic \in TopicInputs
    /\ InitScraperVars
    /\ InitAnalyzerVars

Next ==
    \/ Call
    \/ ParseFeed
    \/ ProcessEntry
    \/ EndFeed
    \/ Return

Spec == Init /\ [][Next]_vars

\* SentimentAnalyzer alone: any text, any answer of the pipeline, any
\* number of earlier calls to the pipeline
InitAnalyzer ==
    /\ cap = 0
    /\ topic = None
    /\ InitScraperVars
    /\ text \in TextInputs
    /\ pipeOut \in PipeOutcomes
    /\ result = NoResult
    /\ pipeCallCount \in 0..MaxPipeCalls
    /\ pipeSent = None

NextAnalyzer == Analyze

SpecAnalyzer == InitAnalyzer /\ [][NextAnalyzer]_vars

(***************************************************************************)
(* Claims about SentimentAnalyzer.analyze (under SpecAnalyzer).            *)
(***************************************************************************)
\* a = b, a < b for the rationals that stand for floats (den > 0)
RatEq(a, b) == a.num * b.den = b.num * a.den
RatLess(a, b) == a.num * b.den < b.num * a.den

Returned == result # NoResult

\* the pipeline answered a rating of n stars, with any confidence
StarLabels == <<"1 star", "2 stars", "3 stars", "4 stars", "5 stars">>
RatedStars(n) ==
    /\ ~pipeOut.raises
    /\ Len(pipeOut.list) = 1
    /\ pipeOut.list[1].keys = {"label", "score"}
    /\ pipeOut.list[1].label = StarLabels[n]

\* the table of section 4.4
TableScore == <<Float(-1, 1), Float(-1, 2), Float(0, 1), Float(1, 2), Float(1, 1)>>
TableLabel == <<"negatif", "negatif", "neutre", "positif", "positif">>

PassesGuard == text # "" /\ Len(strip(text)) >= MinTextLen

\* C4: for every text that passes the degenerate-input guard and every
\* rating of 1..5 stars, whatever the confidence, analyze returns the score
\* (stars - 3) / 2 and the label of the table: -1.0 and -0.5 negative, 0.0
\* neutral, +0.5 and +1.0 positive.
C4_MappingLaw ==
    \A n \in 1..5 :
        (Returned /\ PassesGuard /\ RatedStars(n))
            => /\ RatEq(result.score, TableScore[n])
               /\ RatEq(result.score, Float(n - 3, 2))
               /\ result.label = TableLabel[n]

C4_Witness ==
    /\ Returned
    /\ text = " aaaaa"
    /\ RatedStars(2)
    /\ pipeOut.list[1].score = 20
    /\ result.label = "negatif"
    /\ result.score = Float(-1, 2)

\* C5: for every text that is empty or whose trimmed length is below 5,
\* analyze returns (0.0, neutral) and the pipeline's call count is left
\* unchanged; for every other text the pipeline is called exactly once.
C5_Guard ==
    [][ (~Returned /\ Returned')
          => IF text = "" \/ Len(strip(text)) < 5
             THEN /\ RatEq(result'.score, Float(0, 1))
                  /\ result'.label = "neutre"
                  /\ pipeCallCount' = pipeCallCount
                  /\ pipeSent' = None
             ELSE /\ pipeCallCount' = pipeCallCount + 1
                  /\ pipeSent' # None ]_vars

C5_Witness ==
    /\ Returned
    /\ Len(text) >= 5
    /\ Len(strip(text)) = 4
    /\ RatedStars(5)
    /\ result = Neutral
    /\ pipeSent = None
    /\ pipeCallCount = 1

\* C9: for every text and every outcome of the classifier, analyze returns
\* a score in [-1.0, 1.0] with the label that goes with it (negative iff
\* score < 0, neutral iff score = 0, positive iff score > 0), and exactly
\* (0.0, neutral) on every classifier failure: an exception, or an output
\* that is no rating of 1..5 stars.
C9_ScoreLabelInvariant ==
    Returned =>
        /\ ~RatLess(result.score, Float(-1, 1))
        /\ ~RatLess(Float(1, 1), result.score)
        /\ result.label = "negatif" <=> RatLess(result.score, Float(0, 1))
        /\ result.label = "neutre" <=> RatEq(result.score, Float(0, 1))
        /\ result.label = "positif" <=> RatLess(Float(0, 1), result.score)
        /\ (\A n \in 1..5 : ~RatedStars(n))
              => RatEq(result.score, Float(0, 1)) /\ result.label = "neutre"

(***************************************************************************)
(* Claims about RSSScraper.scrape_topic (under Spec).                      *)
(***************************************************************************)
InRun == pc \in {"feeds", "entries", "return"}

\* the entries of the mocked world that process without raising, and the
\* body their page yields
HealthyInputs == {EntryLong, EntryNoDate, EntryEdge, EntryHang}
FailingInputs == {EntryNoTitle, EntryBadDate}

BodyOf(e) ==
    CASE e = EntryLong -> Rep("x", 150)
      [] e = EntryEdge -> Rep("z", 100)
      [] OTHER -> ""

FeedAt(j) == FeedsOf(topic)[j]
Served(j) == feedMock[FeedAt(j).url]

\* a fetch that succeeded: parse returned, and the feed is not bozo
Fetched(j) == Served(j).net = "ok" /\ ~Served(j).raises /\ ~Served(j).bozo

\* the logically ordered stream: the entries of the fetched feeds 1..j, in
\* registry order then feed order, each with its source
Tagged(j, es) == [i \in 1..Len(es) |-> [src |-> FeedAt(j).name, entry |-> es[i]]]

RECURSIVE StreamUpTo(_)
StreamUpTo(j) ==
    IF j <= 0 THEN <<>>
    ELSE StreamUpTo(j - 1) \o (IF Fetched(j) THEN Tagged(j, Served(j).entries) ELSE <<>>)

\* the part of the stream the call in progress has gone through
Consumed ==
    IF pc \in {"entries", "return"}
    THEN StreamUpTo(fi - 1) \o Tagged(fi, SubSeq(entries, 1, ei - 1))
    ELSE StreamUpTo(fi - 1)

IsHealthy(x) == x.entry \in HealthyInputs
HealthyOf(stream) == SelectSeq(stream, IsHealthy)

StreamKeys(stream) == [i \in 1..Len(stream) |-> <<stream[i].src, stream[i].entry.link>>]
ArticleKeys(as) == [i \in 1..Len(as) |-> <<as[i].source, as[i].url>>]

FirstN(q, n) == SubSeq(q, 1, Min({n, Len(q)}))

Returns == {i \in DOMAIN results : ~results[i].raised}

\* C1: the list scrape_topic returns is never longer than the cap, and
\* neither is the accumulated list at any point of a run; when the one
\* source that yields entries yields at least cap entries whose first cap
\* all process successfully, the result is exactly these, in feed order.
C1_Cap ==
    /\ Len(articles) <= cap
    /\ \A i \in DOMAIN results : Len(results[i].articles) <= cap
    /\ \A i \in Returns : \A j \in 1..Len(FeedsOf(topic)) :
          ( /\ Fetched(j)
            /\ StreamUpTo(j - 1) = <<>>
            /\ Len(Served(j).entries) >= cap
            /\ \A k \in 1..cap : Served(j).entries[k] \in HealthyInputs )
          => ArticleKeys(results[i].articles)
                = StreamKeys(Tagged(j, SubSeq(Served(j).entries, 1, cap)))

C1_Witness ==
    /\ topic \in DOMAIN RSS_FEEDS
    /\ cap = 2
    /\ Returns # {}
    /\ Served(1).entries = <<EntryNoDate, EntryLong, EntryEdge>>
    /\ ArticleKeys(results[1].articles)
          = <<<<FeedAt(1).name, EntryNoDate.link>>, <<FeedAt(1).name, EntryLong.link>>>>

\* C2: when the fetch of one source fails (parse raises, returns a fetch
\* error, or the feed is bozo), scrape_topic still returns normally, with
\* the articles of the sources whose fetch succeeded only: no exception
\* leaves scrape_topic.
C2_SourceResilience ==
    \A i \in DOMAIN results :
        /\ ~results[i].raised
        /\ \A k \in DOMAIN results[i].articles :
              \E j \in 1..Len(FeedsOf(topic)) :
                  Fetched(j) /\ FeedAt(j).name = results[i].articles[k].source

\* C3: an entry whose processing raises is skipped, alone: the result is
\* the healthy entries of the stream, in order, up to the cap; no failing
\* entry is in it; and a skipped entry takes no room under the cap.
C3_EntryResilience ==
    /\ \A i \in Returns :
          ArticleKeys(results[i].articles)
             = FirstN(StreamKeys(HealthyOf(StreamUpTo(Len(FeedsOf(topic))))), cap)
    /\ InRun =>
          /\ Len(articles) = Len(HealthyOf(Consumed))
          /\ \A k \in DOMAIN articles : \A e \in FailingInputs : articles[k].url # e.link
          /\ (pc = "entries" /\ ei > Len(entries))
                => ArticleKeys(articles)
                      = FirstN(StreamKeys(HealthyOf(StreamUpTo(fi))), cap)

C3_Witness ==
    /\ topic \in DOMAIN RSS_FEEDS
    /\ cap = 2
    /\ Returns # {}
    /\ Served(1).entries = <<EntryLong, EntryBadDate, EntryNoDate>>
    /\ Len(results[1].articles) = 2
    /\ results[1].articles[1].url = EntryLong.link
    /\ results[1].articles[2].url = EntryNoDate.link

\* the entry the k-th analyzed text comes from
EntryOf(k) == Served(analyzed[k].src).entries[analyzed[k].idx]

FallbackOf(e) == e.title \o " " \o (IF e.description = Absent THEN "" ELSE e.description)

\* C6: the text passed to analyze is the extracted body if and only if the
\* body is longer than 100 characters, and otherwise the title, a space and
\* the feed's description (empty when the feed gives none); the article's
\* text field holds the extracted body in both cases.
C6_TextSelection ==
    InRun =>
        /\ Len(analyzed) = Len(articles)
        /\ \A k \in DOMAIN analyzed :
              /\ articles[k].url = EntryOf(k).link
              /\ articles[k].text = BodyOf(EntryOf(k))
              /\ analyzed[k].text = articles[k].text <=> Len(articles[k].text) > 100
              /\ Len(articles[k].text) <= 100 => analyzed[k].text = FallbackOf(EntryOf(k))

C6_Witness ==
    /\ InRun
    /\ Len(analyzed) = 2
    /\ Len(articles[1].text) = 100
    /\ analyzed[1].text = "Seuil "
    /\ Len(articles[2].text) = 150
    /\ analyzed[2].text = articles[2].text

\* the feed gave the entry behind this URL a publish time
Dated(url) ==
    \E e \in EntryInputs :
        e.link = url /\ e.published_parsed.has /\ e.published_parsed.val # <<>>

SameButDate(a, b) ==
    /\ a.title = b.title
    /\ a.url = b.url
    /\ a.source = b.source
    /\ a.topic = b.topic
    /\ a.text = b.text
    /\ a.sentiment_score = b.sentiment_score
    /\ a.sentiment_label = b.sentiment_label

\* C7 as stated: two runs for the same topic, with the same responses,
\* return article sequences that are identical field by field, also for
\* the entries whose feed omits the publish time.
C7_Determinism ==
    \A i, j \in DOMAIN results : results[i] = results[j]

\* C7 as amended: two runs return sequences of the same length whose
\* articles agree on title, url, source, topic, text, score and label, and
\* on published_date for every entry whose feed gives a publish time.
C7_DeterminismButIngestionTime ==
    \A i, j \in DOMAIN results :
        /\ results[i].raised = results[j].raised
        /\ Len(results[i].articles) = Len(results[j].articles)
        /\ \A k \in DOMAIN results[i].articles :
              /\ SameButDate(results[i].articles[k], results[j].articles[k])
              /\ Dated(results[i].articles[k].url)
                    => results[i].articles[k].published_date
                          = results[j].articles[k].published_date

C7_Witness ==
    /\ Len(results) >= 2
    /\ Len(results[1].articles) = 2
    /\ Dated(results[1].articles[1].url)
    /\ ~Dated(results[1].articles[2].url)
    /\ results[1].articles[1] = results[2].articles[1]
    /\ results[1].articles[2].published_date # results[2].articles[2].published_date

SourceIndex(name) == CHOOSE j \in 1..Len(FeedsOf(topic)) : FeedAt(j).name = name

\* C8: at every point of a run the accumulated list is the healthy entries
\* of the part of the stream gone through so far, in stream order (sources
\* in registry order, entries in feed order), and a step changes it only by
\* appending one article at its end.
C8_Ordering ==
    /\ [](InRun =>
            /\ ArticleKeys(articles) = StreamKeys(HealthyOf(Consumed))
            /\ \A k, l \in DOMAIN articles :
                  k < l => SourceIndex(articles[k].source) <= SourceIndex(articles[l].source))
    /\ [][ (InRun /\ InRun')
             => \/ articles' = articles
                \/ /\ Len(articles') = Len(articles) + 1
                   /\ SubSeq(articles', 1, Len(articles)) = articles ]_vars

C8_Witness ==
    /\ InRun
    /\ Len(articles) = 2
    /\ articles[1].source = FeedAt(1).name
    /\ articles[2].source = FeedAt(2).name
    /\ Served(1).entries = <<EntryNoTitle, EntryEdge>>

\* C10: every network call of a run, the feed fetch as well as the article
\* fetch, is issued with an explicit timeout and with the client's
\* identifying header, and no step of the run blocks for ever.
C10_BoundedBlocking ==
    /\ \A c \in netCalls : c.timeout # <<>> /\ c.agent = USER_AGENT
    /\ pc # "blocked"

====
